---------------------------- MODULE Spec2Model ----------------------------
(* Model of video-processing/main.py: the timestamp reader, the two time   *)
(* converters, the validator loop of the main block and the per-clip loop  *)
(* of extract_and_resize_clips.                                            *)
(*                                                                         *)
(* Text is a sequence of one-character strings ("02:05" is                 *)
(* <<"0","2",":","0","5">>), so that split, strip, int() and the :02d      *)
(* format are computed character by character.  An optional integer is a   *)
(* sequence of length 0 (Python's None) or 1.  A number of seconds that    *)
(* may be fractional (the video duration) is counted in ticks of 1/Scale s.*)
EXTENDS Integers, Sequences, FiniteSets, TLC

(***************************************************************************)
(* Bounds of the model                                                     *)
(***************************************************************************)
\* Ticks per second: the resolution of fractional durations.
Scale == 2
\* Longest enumerated timestamp text handed to time_to_seconds.
MaxTsLen == 5
\* Largest whole number of seconds handed to time_to_seconds_to_timestamp.
MaxFmtSecs == 6100
\* Most lines of a timestamps file.
MaxLines == 2
\* Most pairs handed directly to extract_and_resize_clips.
MaxPairs == 2

(***************************************************************************)
(* Text helpers: str.strip, str.split, the `in` test, int(), format :02d   *)
(***************************************************************************)
None == <<>>
Some(n) == <<n>>

Whitespace == {" ", "\n"}
DigitChars == <<"0", "1", "2", "3", "4", "5", "6", "7", "8", "9">>
IsDigit(c) == \E i \in 1..10 : DigitChars[i] = c
DigitVal(c) == (CHOOSE i \in 1..10 : DigitChars[i] = c) - 1

Contains(s, c) == \E i \in 1..Len(s) : s[i] = c

RECURSIVE LStrip(_)
LStrip(s) ==
    IF s # <<>> /\ Head(s) \in Whitespace THEN LStrip(Tail(s)) ELSE s

RECURSIVE RStrip(_)
RStrip(s) ==
    IF s # <<>> /\ s[Len(s)] \in Whitespace
    THEN RStrip(SubSeq(s, 1, Len(s) - 1))
    ELSE s

\* str.strip(): leading and trailing whitespace removed.
Strip(s) == RStrip(LStrip(s))

\* str.split(sep): the pieces between the separators, always at least one.
RECURSIVE Split(_, _)
Split(s, sep) ==
    IF ~Contains(s, sep) THEN <<s>>
    ELSE LET k == CHOOSE i \in 1..Len(s) :
                     s[i] = sep /\ \A j \in 1..(i - 1) : s[j] # sep
         IN  <<SubSeq(s, 1, k - 1)>> \o Split(SubSeq(s, k + 1, Len(s)), sep)

RECURSIVE DigitsValue(_)
DigitsValue(s) ==
    IF s = <<>> THEN 0
    ELSE 10 * DigitsValue(SubSeq(s, 1, Len(s) - 1)) + DigitVal(s[Len(s)])

\* int(text): surrounding whitespace ignored, an optional sign, then one or
\* more decimal digits; anything else raises ValueError (None here).  The
\* digit-group underscore int() also accepts is not in the texts modelled.
ParseInt(s) ==
    LET t    == Strip(s)
        sgn  == t # <<>> /\ Head(t) \in {"+", "-"}
        body == IF sgn THEN Tail(t) ELSE t
    IN  IF body = <<>> \/ \E i \in 1..Len(body) : ~IsDigit(body[i])
        THEN None
        ELSE IF sgn /\ Head(t) = "-"
             THEN Some(0 - DigitsValue(body))
             ELSE Some(DigitsValue(body))

RECURSIVE ToDigits(_)
ToDigits(n) ==
    IF n < 10 THEN <<DigitChars[n + 1]>>
    ELSE ToDigits(n \div 10) \o <<DigitChars[(n % 10) + 1]>>

Fmt02d_nopad(n) ==
    IF n < 0 THEN <<"-">> \o ToDigits(0 - n) ELSE ToDigits(n)

\* format(n, "02d"): decimal, zero-padded to a width of at least two.
Fmt02d(n) ==
    IF n < 0 THEN <<"-">> \o ToDigits(0 - n)
    ELSE IF n < 10 THEN <<"0">> \o ToDigits(n)
    ELSE ToDigits(n)

(***************************************************************************)
(* The two converters                                                      *)
(***************************************************************************)
time_to_seconds_hm(timestamp) ==
    LET comps == Split(timestamp, ":")
        parts == [i \in 1..Len(comps) |-> ParseInt(comps[i])]
    IN  IF \E i \in 1..Len(parts) : parts[i] = None THEN None
        ELSE IF Len(parts) = 2
             THEN Some(parts[1][1] * 60 + parts[2][1])
        ELSE IF Len(parts) = 3
             THEN Some(parts[1][1] * 60 + parts[2][1] * 60 + parts[3][1])
        ELSE IF Len(parts) = 1
             THEN Some(parts[1][1])
        ELSE None

\* time_to_seconds: None stands for both the except branch (a component
\* int() rejects) and the fall-through of a component count other than 2, 3.
time_to_seconds(timestamp) ==
    LET comps == Split(timestamp, ":")
        parts == [i \in 1..Len(comps) |-> ParseInt(comps[i])]
    IN  IF \E i \in 1..Len(parts) : parts[i] = None THEN None
        ELSE IF Len(parts) = 2
             THEN Some(parts[1][1] * 60 + parts[2][1])
        ELSE IF Len(parts) = 3
             THEN Some(parts[1][1] * 3600 + parts[2][1] * 60 + parts[3][1])
        ELSE None

time_to_seconds_to_timestamp_mod60(ticks) ==
    LET minutes           == (ticks \div (60 * Scale)) % 60
        remaining_seconds == (ticks % (60 * Scale)) \div Scale
    IN  Fmt02d(minutes) \o <<":">> \o Fmt02d(remaining_seconds)

time_to_seconds_to_timestamp_round(ticks) ==
    LET minutes           == ticks \div (60 * Scale)
        remaining_seconds == ((ticks % (60 * Scale)) + Scale - 1) \div Scale
    IN  Fmt02d(minutes) \o <<":">> \o Fmt02d(remaining_seconds)

\* time_to_seconds_to_timestamp, its argument in ticks:
\* int(seconds // 60) and int(seconds % 60), each formatted :02d.
time_to_seconds_to_timestamp(ticks) ==
    LET minutes           == ticks \div (60 * Scale)
        remaining_seconds == (ticks % (60 * Scale)) \div Scale
    IN  Fmt02d(minutes) \o <<":">> \o Fmt02d(remaining_seconds)


(***************************************************************************)
(* State                                                                   *)
(***************************************************************************)
VARIABLES
    pc,                   \* position in the program
    \* direct calls of the converters
    timestamp,            \* argument of time_to_seconds
    seconds,              \* its result (None or Some)
    ticks,                \* argument of time_to_seconds_to_timestamp
    stamp,                \* its result
    \* the main block
    lines,                \* file.readlines() of the timestamps file
    line_no,              \* lines consumed by read_timestamps
    timestamps,           \* the list read_timestamps builds and returns
    video_duration,       \* get_video_duration(video_path), in ticks
    pair_no,              \* pairs consumed by the validator loop
    adjusted_timestamps,  \* the list the validator loop builds
    clamped,              \* positions of adjusted_timestamps with a replaced end
    \* extract_and_resize_clips
    clip_timestamps,      \* its timestamps argument
    idx,                  \* enumerate index of the current pair (0-based)
    start_sec, end_sec,   \* conversions of the current pair
    temp_exists,          \* n such that temp_clip_n.mp4 exists
    extracted,            \* n -> what ffmpeg_extract_subclip did for pair n
    clips,                \* n -> state of clip_n.mp4
    open_handles,         \* media readers opened and not yet closed
    temp_clip_test,       \* local variable temp_clip_test
    clip,                 \* local variable clip (survives the iteration)
    finally_target,       \* what the finally block of this iteration closed
    visited,              \* indices the loop has entered, in order
    skipped,              \* n skipped by the defensive re-check (line 58)
    size_checked,         \* n whose temp file was found non-empty
    dur_checked,          \* n whose temp file was found of non-zero duration
    delete_failed         \* n for which os.remove raised

convVars == <<timestamp, seconds, ticks, stamp>>
mainVars == <<lines, line_no, timestamps, video_duration, pair_no,
              adjusted_timestamps, clamped>>
fileVars == <<temp_exists, extracted, clips, delete_failed>>
handleVars == <<open_handles, temp_clip_test, clip, finally_target>>
loopVars == <<clip_timestamps, idx, start_sec, end_sec, visited, skipped,
              size_checked, dur_checked>>
extractVars == <<fileVars, handleVars, loopVars>>
vars == <<pc, convVars, mainVars, extractVars>>

Text(n, alphabet) == UNION {[1..k -> alphabet] : k \in 0..n}

\* A (start, end) tuple of read_timestamps.
Pair(start, end) == <<start, end>>

(***************************************************************************)
(* Direct calls of the converters                                          *)
(***************************************************************************)
ConvAlphabet == {"0", "1", ":", "x", " ", "-"}

\* Every zero-padded mm:ss with m, s < 60, written out digit by digit.
PaddedStamps ==
    {<<DigitChars[a + 1], DigitChars[b + 1], ":",
       DigitChars[c + 1], DigitChars[d + 1]>> :
        a \in 0..5, b \in 0..9, c \in 0..5, d \in 0..9}

TsExamples ==
    {<<"1", ":", "3", "0", ":", "0", "0">>, <<"0", "2", ":", "0", "5">>,
     <<"6", "2", ":", "0", "5">>, <<"1", ":", "2", ":", "3", ":", "4">>,
     <<"0", "1", ":", "0", "2", ":", "0", "5">>}

TsInputs == Text(MaxTsLen, ConvAlphabet) \cup PaddedStamps \cup TsExamples

FmtInputs == 0..(MaxFmtSecs * Scale)

extractIdle ==
    /\ clip_timestamps = <<>> /\ idx = 0
    /\ start_sec = None /\ end_sec = None
    /\ temp_exists = {} /\ extracted = <<>> /\ clips = <<>>
    /\ open_handles = {} /\ temp_clip_test = None /\ clip = None
    /\ finally_target = None /\ visited = <<>> /\ skipped = {}
    /\ size_checked = {} /\ dur_checked = {} /\ delete_failed = {}

mainIdle ==
    /\ lines = <<>> /\ line_no = 0 /\ timestamps = <<>>
    /\ video_duration = 0 /\ pair_no = 0
    /\ adjusted_timestamps = <<>> /\ clamped = {}

InitConv ==
    /\ mainIdle /\ extractIdle
    /\ seconds = None /\ stamp = <<>>
    /\ \/ pc = "ts_call" /\ timestamp \in TsInputs /\ ticks = 0
       \/ pc = "fmt_call" /\ timestamp = <<>> /\ ticks \in FmtInputs

\* seconds = time_to_seconds(timestamp)
CallTimeToSeconds ==
    /\ pc = "ts_call"
    /\ seconds' = time_to_seconds(timestamp)
    /\ pc' = "ts_ret"
    /\ UNCHANGED <<timestamp, ticks, stamp, mainVars, extractVars>>

\* stamp = time_to_seconds_to_timestamp(seconds), on a whole number of
\* seconds time_to_seconds produced
CallRoundTrip ==
    /\ pc = "ts_ret"
    /\ seconds # None
    /\ seconds[1] >= 0
    /\ ticks' = seconds[1] * Scale
    /\ stamp' = time_to_seconds_to_timestamp(seconds[1] * Scale)
    /\ pc' = "rt_ret"
    /\ UNCHANGED <<timestamp, seconds, mainVars, extractVars>>

\* stamp = time_to_seconds_to_timestamp(ticks / Scale)
CallToTimestamp ==
    /\ pc = "fmt_call"
    /\ stamp' = time_to_seconds_to_timestamp(ticks)
    /\ pc' = "fmt_ret"
    /\ UNCHANGED <<timestamp, seconds, ticks, mainVars, extractVars>>

NextConv == CallTimeToSeconds \/ CallRoundTrip \/ CallToTimestamp

SpecConv == InitConv /\ [][NextConv]_vars

(***************************************************************************)
(* The main block: read_timestamps, then the validator loop                *)
(***************************************************************************)
LineChoices ==
    {<<"0","0",":","5","0","-","0","1",":","5","0","\n">>,
     <<"0","2",":","0","0","-","0","2",":","1","0","\n">>,
     <<"g","a","r","b","a","g","e","\n">>,
     <<" ","0","0",":","0","0"," ","-"," ","0","0",":","2","0">>,
     <<"0","0",":","3","0","-","0","0",":","4","0","-","0","0",":","5","0","\n">>,
     <<"5","9",":","5","8","-","1",":","1","0",":","0","5","\n">>,
     <<"0","0",":","0","0","-","0","x",":","1","0","\n">>}

Files == UNION {[1..k -> LineChoices] : k \in 0..MaxLines}

\* Durations get_video_duration can return: 0 (also its error value), whole
\* and fractional seconds, below and above one hour.
Durations ==
    {0, 15 * Scale + 1, 100 * Scale, 3600 * Scale - 1, 3725 * Scale + 1}

InitMain ==
    /\ extractIdle
    /\ timestamp = <<>> /\ seconds = None /\ ticks = 0 /\ stamp = <<>>
    /\ pc = "read"
    /\ lines \in Files
    /\ video_duration \in Durations
    /\ line_no = 0 /\ timestamps = <<>> /\ pair_no = 0
    /\ adjusted_timestamps = <<>> /\ clamped = {}

\* One pass of the for loop of read_timestamps.  The two-name unpacking of
\* the split raises ValueError unless the split has exactly two pieces; the
\* except of line 24 then makes the function return [].
ReadLine ==
    /\ pc = "read"
    /\ line_no < Len(lines)
    /\ LET line   == lines[line_no + 1]
           pieces == Split(Strip(line), "-")
       IN  IF Contains(line, "-")
           THEN IF Len(pieces) = 2
                THEN /\ timestamps' = Append(timestamps,
                                Pair(Strip(pieces[1]), Strip(pieces[2])))
                     /\ line_no' = line_no + 1
                     /\ pc' = "read"
                ELSE /\ timestamps' = <<>>
                     /\ line_no' = line_no
                     /\ pc' = "validate"
           ELSE /\ timestamps' = timestamps
                /\ line_no' = line_no + 1
                /\ pc' = "read"
    /\ UNCHANGED <<lines, video_duration, pair_no, adjusted_timestamps,
                   clamped, convVars, extractVars>>

\* return timestamps (line 23)
ReadReturn ==
    /\ pc = "read"
    /\ line_no = Len(lines)
    /\ pc' = "validate"
    /\ UNCHANGED <<mainVars, convVars, extractVars>>

ValidatePair_ge ==
    /\ pc = "validate"
    /\ pair_no < Len(timestamps)
    /\ LET start == timestamps[pair_no + 1][1]
           end   == timestamps[pair_no + 1][2]
           s_sec == time_to_seconds(start)
           e_sec == time_to_seconds(end)
       IN  IF s_sec = None \/ e_sec = None
           THEN UNCHANGED <<adjusted_timestamps, clamped>>
           ELSE IF s_sec[1] * Scale > video_duration
           THEN UNCHANGED <<adjusted_timestamps, clamped>>
           ELSE IF e_sec[1] * Scale > video_duration
           THEN /\ adjusted_timestamps' = Append(adjusted_timestamps,
                    Pair(start, time_to_seconds_to_timestamp(video_duration)))
                /\ clamped' = clamped \cup {Len(adjusted_timestamps) + 1}
           ELSE /\ adjusted_timestamps' =
                        Append(adjusted_timestamps, Pair(start, end))
                /\ clamped' = clamped
    /\ pair_no' = pair_no + 1
    /\ UNCHANGED <<pc, lines, line_no, timestamps, video_duration,
                   convVars, extractVars>>

\* One pass of the validator loop (lines 150-162).
ValidatePair ==
    /\ pc = "validate"
    /\ pair_no < Len(timestamps)
    /\ LET start == timestamps[pair_no + 1][1]
           end   == timestamps[pair_no + 1][2]
           s_sec == time_to_seconds(start)
           e_sec == time_to_seconds(end)
       IN  IF s_sec = None \/ e_sec = None
           THEN UNCHANGED <<adjusted_timestamps, clamped>>
           ELSE IF s_sec[1] * Scale >= video_duration
           THEN UNCHANGED <<adjusted_timestamps, clamped>>
           ELSE IF e_sec[1] * Scale > video_duration
           THEN /\ adjusted_timestamps' = Append(adjusted_timestamps,
                    Pair(start, time_to_seconds_to_timestamp(video_duration)))
                /\ clamped' = clamped \cup {Len(adjusted_timestamps) + 1}
           ELSE /\ adjusted_timestamps' =
                        Append(adjusted_timestamps, Pair(start, end))
                /\ clamped' = clamped
    /\ pair_no' = pair_no + 1
    /\ UNCHANGED <<pc, lines, line_no, timestamps, video_duration,
                   convVars, extractVars>>

\* The state of extract_and_resize_clips on entry, before its loop.
Entered(arg) ==
    /\ clip_timestamps' = arg
    /\ idx' = 0
    /\ extracted' = [n \in 1..Len(arg) |-> "none"]
    /\ clips' = [n \in 1..Len(arg) |-> "absent"]
    /\ UNCHANGED <<start_sec, end_sec, temp_exists, delete_failed,
                   handleVars, visited, skipped, size_checked, dur_checked>>

\* extract_and_resize_clips(video_path, adjusted_timestamps, output_folder)
CallExtract ==
    /\ pc = "validate"
    /\ pair_no = Len(timestamps)
    /\ Entered(adjusted_timestamps)
    /\ pc' = "loop"
    /\ UNCHANGED <<mainVars, convVars>>

(***************************************************************************)
(* extract_and_resize_clips: the per-clip loop (lines 52-115)              *)
(*                                                                         *)
(* A media handle is <<n, kind>>: the reader VideoFileClip opened on       *)
(* temp_clip_n.mp4 at line 74 (kind "test") or line 88 (kind "clip").      *)
(* The local variable clip is <<>> while unbound, else <<n, view>>: the    *)
(* clip object it is bound to, a view ("file", "resized", "cropped") of    *)
(* reader <<n, "clip">>.  resized() and Crop.apply() return copies that    *)
(* share the reader of the clip they are applied to, so close() on any     *)
(* view closes that reader.                                                *)
(***************************************************************************)
PairChoices ==
    {Pair(<<"0","0",":","0","0">>, <<"0","0",":","1","0">>),
     Pair(<<"0","0",":","5","0">>, <<"1",":","0","0",":","0","0">>),
     Pair(<<"0","x",":","0","0">>, <<"0","0",":","1","0">>)}

InitExtract ==
    /\ mainIdle
    /\ timestamp = <<>> /\ seconds = None /\ ticks = 0 /\ stamp = <<>>
    /\ pc = "loop"
    /\ clip_timestamps \in UNION {[1..k -> PairChoices] : k \in 0..MaxPairs}
    /\ idx = 0
    /\ start_sec = None /\ end_sec = None
    /\ temp_exists = {}
    /\ extracted = [n \in 1..Len(clip_timestamps) |-> "none"]
    /\ clips = [n \in 1..Len(clip_timestamps) |-> "absent"]
    /\ open_handles = {} /\ temp_clip_test = None /\ clip = None
    /\ finally_target = None /\ visited = <<>> /\ skipped = {}
    /\ size_checked = {} /\ dur_checked = {} /\ delete_failed = {}

\* The 1-based number in temp_clip_{idx + 1}.mp4 and clip_{idx + 1}.mp4.
FileNo == idx + 1

\* `continue`, or the end of the loop body: on to the next pair.
Advance ==
    /\ pc' = "loop"
    /\ idx' = idx + 1

\* os.remove(temp_output_path): the file goes, or the call raises.
Removed(ok) ==
    IF ok /\ FileNo \in temp_exists
    THEN /\ temp_exists' = temp_exists \ {FileNo}
         /\ delete_failed' = delete_failed
    ELSE /\ temp_exists' = temp_exists
         /\ delete_failed' = delete_failed \cup {FileNo}

\* Lines 52-62: the next pair and its conversions; a pair that does not
\* convert is skipped.
NextPair ==
    /\ pc = "loop"
    /\ idx < Len(clip_timestamps)
    /\ LET s_sec == time_to_seconds(clip_timestamps[idx + 1][1])
           e_sec == time_to_seconds(clip_timestamps[idx + 1][2])
       IN  /\ start_sec' = s_sec
           /\ end_sec' = e_sec
           /\ IF s_sec = None \/ e_sec = None
              THEN /\ skipped' = skipped \cup {FileNo}
                   /\ Advance
              ELSE /\ skipped' = skipped
                   /\ pc' = "extract"
                   /\ idx' = idx
    /\ visited' = Append(visited, FileNo)
    /\ finally_target' = None
    /\ UNCHANGED <<clip_timestamps, fileVars, open_handles, temp_clip_test,
                   clip, size_checked, dur_checked, mainVars, convVars>>

\* The for loop is exhausted: the function returns.
Return ==
    /\ pc = "loop"
    /\ idx = Len(clip_timestamps)
    /\ pc' = "returned"
    /\ UNCHANGED <<mainVars, convVars, extractVars>>

\* Line 66.  ffmpeg_extract_subclip raises (taken to leave no file), or
\* returns having written no file, an empty file, a file of zero duration
\* or a good file.  A raise goes to the except of line 82.
ExtractSubclip ==
    /\ pc = "extract"
    /\ \E outcome \in {"raised", "missing", "empty", "zero_duration",
                       "good"} :
        /\ extracted' = [extracted EXCEPT ![FileNo] = outcome]
        /\ temp_exists' = IF outcome \in {"raised", "missing"}
                          THEN temp_exists
                          ELSE temp_exists \cup {FileNo}
        /\ IF outcome = "raised"
           THEN Advance
           ELSE pc' = "getsize" /\ idx' = idx
    /\ UNCHANGED <<clip_timestamps, start_sec, end_sec, clips, delete_failed,
                   handleVars, visited, skipped, size_checked, dur_checked,
                   mainVars, convVars>>

CheckSize_keep_going ==
    /\ pc = "getsize"
    /\ IF FileNo \notin temp_exists
       THEN Advance /\ UNCHANGED size_checked
       ELSE /\ pc' = "verify_open" /\ idx' = idx
            /\ size_checked' = IF extracted[FileNo] = "empty"
                               THEN size_checked
                               ELSE size_checked \cup {FileNo}
    /\ UNCHANGED <<clip_timestamps, start_sec, end_sec, fileVars, handleVars,
                   visited, skipped, dur_checked, mainVars, convVars>>

\* Lines 67-72.  os.path.getsize raises when the file is missing (except of
\* line 82); an empty file is abandoned where it is.
CheckSize ==
    /\ pc = "getsize"
    /\ IF FileNo \notin temp_exists
       THEN Advance /\ UNCHANGED size_checked
       ELSE IF extracted[FileNo] = "empty"
       THEN Advance /\ UNCHANGED size_checked
       ELSE /\ pc' = "verify_open" /\ idx' = idx
            /\ size_checked' = size_checked \cup {FileNo}
    /\ UNCHANGED <<clip_timestamps, start_sec, end_sec, fileVars, handleVars,
                   visited, skipped, dur_checked, mainVars, convVars>>

\* Line 74: temp_clip_test = VideoFileClip(temp_output_path), which may
\* raise (except of line 82).
VerifyOpen ==
    /\ pc = "verify_open"
    /\ \E opens \in BOOLEAN :
        IF opens
        THEN /\ open_handles' = open_handles \cup {<<FileNo, "test">>}
             /\ temp_clip_test' = Some(FileNo)
             /\ pc' = "verify_check" /\ idx' = idx
        ELSE /\ UNCHANGED <<open_handles, temp_clip_test>>
             /\ Advance
    /\ UNCHANGED <<clip_timestamps, start_sec, end_sec, fileVars, clip,
                   finally_target, visited, skipped, size_checked,
                   dur_checked, mainVars, convVars>>

\* Lines 75-77 and 80: the duration test; temp_clip_test is closed on both
\* branches.
VerifyDuration ==
    /\ pc = "verify_check"
    /\ open_handles' = open_handles \ {<<temp_clip_test[1], "test">>}
    /\ IF extracted[FileNo] = "zero_duration"
       THEN pc' = "verify_remove" /\ UNCHANGED dur_checked
       ELSE pc' = "open" /\ dur_checked' = dur_checked \cup {FileNo}
    /\ UNCHANGED <<clip_timestamps, idx, start_sec, end_sec, fileVars,
                   temp_clip_test, clip, finally_target, visited, skipped,
                   size_checked, mainVars, convVars>>

\* Lines 78-79: os.remove of the zero-duration file, then continue; a raise
\* goes to the except of line 82, which continues too.
VerifyRemove ==
    /\ pc = "verify_remove"
    /\ \E ok \in BOOLEAN : Removed(ok)
    /\ Advance
    /\ UNCHANGED <<clip_timestamps, start_sec, end_sec, extracted, clips,
                   handleVars, visited, skipped, size_checked, dur_checked,
                   mainVars, convVars>>

\* Lines 88-89: clip = VideoFileClip(temp_output_path).  When it raises,
\* clip keeps whatever an earlier iteration bound it to.
OpenClip ==
    /\ pc = "open"
    /\ \E opens \in BOOLEAN :
        IF opens
        THEN /\ open_handles' = open_handles \cup {<<FileNo, "clip">>}
             /\ clip' = <<FileNo, "file">>
             /\ pc' = "check"
        ELSE /\ UNCHANGED <<open_handles, clip>>
             /\ pc' = "finally"
    /\ UNCHANGED <<clip_timestamps, idx, start_sec, end_sec, fileVars,
                   temp_clip_test, finally_target, visited, skipped,
                   size_checked, dur_checked, mainVars, convVars>>

\* Lines 91-95: the second duration test, on the same file.  On a zero
\* duration: clip.close(), os.remove, then continue through the finally
\* block; a raise of os.remove goes through the except of line 105 and the
\* finally block to line 111.
CheckDuration ==
    /\ pc = "check"
    /\ IF extracted[FileNo] = "zero_duration"
       THEN /\ open_handles' = open_handles \ {<<clip[1], "clip">>}
            /\ \E ok \in BOOLEAN :
                /\ Removed(ok)
                /\ pc' = IF ok THEN "finally_continue" ELSE "finally"
       ELSE /\ UNCHANGED <<open_handles, temp_exists, delete_failed>>
            /\ pc' = "resize"
    /\ UNCHANGED <<clip_timestamps, idx, start_sec, end_sec, extracted,
                   clips, temp_clip_test, clip, finally_target, visited,
                   skipped, size_checked, dur_checked, mainVars, convVars>>

\* Line 97: clip = clip.resized(height=1920), or it raises.
Resize ==
    /\ pc = "resize"
    /\ \E raises \in BOOLEAN :
        IF raises
        THEN clip' = clip /\ pc' = "finally"
        ELSE clip' = <<clip[1], "resized">> /\ pc' = "crop"
    /\ UNCHANGED <<clip_timestamps, idx, start_sec, end_sec, fileVars,
                   open_handles, temp_clip_test, finally_target, visited,
                   skipped, size_checked, dur_checked, mainVars, convVars>>

\* Lines 98-99: cropper = Crop(...); clip = cropper.apply(clip), or a raise.
CropApply ==
    /\ pc = "crop"
    /\ \E raises \in BOOLEAN :
        IF raises
        THEN clip' = clip /\ pc' = "finally"
        ELSE clip' = <<clip[1], "cropped">> /\ pc' = "write"
    /\ UNCHANGED <<clip_timestamps, idx, start_sec, end_sec, fileVars,
                   open_handles, temp_clip_test, finally_target, visited,
                   skipped, size_checked, dur_checked, mainVars, convVars>>

\* Lines 101-103: clip.write_videofile(clip_{idx + 1}.mp4), which writes
\* the file or raises part-way.
WriteVideofile ==
    /\ pc = "write"
    /\ \E raises \in BOOLEAN :
        clips' = [clips EXCEPT
                    ![FileNo] = IF raises THEN "partial" ELSE "written"]
    /\ pc' = "finally"
    /\ UNCHANGED <<clip_timestamps, idx, start_sec, end_sec, temp_exists,
                   extracted, delete_failed, handleVars, visited, skipped,
                   size_checked, dur_checked, mainVars, convVars>>

\* Lines 107-109: if 'clip' in locals(): clip.close().
Finally ==
    /\ pc \in {"finally", "finally_continue"}
    /\ IF clip # None
       THEN /\ open_handles' = open_handles \ {<<clip[1], "clip">>}
            /\ finally_target' = Some(clip[1])
       ELSE UNCHANGED <<open_handles, finally_target>>
    /\ IF pc = "finally_continue"
       THEN Advance
       ELSE pc' = "remove" /\ idx' = idx
    /\ UNCHANGED <<clip_timestamps, start_sec, end_sec, fileVars,
                   temp_clip_test, clip, visited, skipped, size_checked,
                   dur_checked, mainVars, convVars>>

RemoveTemp_propagate ==
    /\ pc = "remove"
    /\ \E ok \in BOOLEAN :
        /\ Removed(ok)
        /\ IF ok THEN Advance ELSE pc' = "aborted" /\ idx' = idx
    /\ UNCHANGED <<clip_timestamps, start_sec, end_sec, extracted, clips,
                   handleVars, visited, skipped, size_checked, dur_checked,
                   mainVars, convVars>>

\* Lines 111-115: os.remove(temp_output_path); a raise is caught and logged.
RemoveTemp ==
    /\ pc = "remove"
    /\ \E ok \in BOOLEAN : Removed(ok)
    /\ Advance
    /\ UNCHANGED <<clip_timestamps, start_sec, end_sec, extracted, clips,
                   handleVars, visited, skipped, size_checked, dur_checked,
                   mainVars, convVars>>

NextExtract ==
    \/ NextPair \/ Return \/ ExtractSubclip \/ CheckSize
    \/ VerifyOpen \/ VerifyDuration \/ VerifyRemove
    \/ OpenClip \/ CheckDuration
    \/ Resize \/ CropApply \/ WriteVideofile \/ Finally \/ RemoveTemp

Init == InitExtract

Next == NextExtract

Spec == Init /\ [][Next]_vars

NextMain == ReadLine \/ ReadReturn \/ ValidatePair \/ CallExtract \/ NextExtract

SpecMain == InitMain /\ [][NextMain]_vars

(***************************************************************************)
(* Properties of the converters (under SpecConv)                           *)
(***************************************************************************)
\* A component int() takes for a number: optional surrounding blanks, an
\* optional sign, then digits only.
CharCount(s, c) == Cardinality({i \in 1..Len(s) : s[i] = c})

IsNumeral(s) == s # <<>> /\ \A i \in 1..Len(s) : IsDigit(s[i])

RECURSIVE Pow10(_)
Pow10(k) == IF k = 0 THEN 1 ELSE 10 * Pow10(k - 1)

RECURSIVE NumeralValue(_)
NumeralValue(s) ==
    IF s = <<>> THEN 0
    ELSE DigitVal(Head(s)) * Pow10(Len(s) - 1) + NumeralValue(Tail(s))

IsInteger(s) ==
    LET t == Strip(s)
    IN  \/ IsNumeral(t)
        \/ t # <<>> /\ Head(t) \in {"+", "-"} /\ IsNumeral(Tail(t))

IntegerValue(s) ==
    LET t == Strip(s)
    IN  IF Head(t) = "-" THEN 0 - NumeralValue(Tail(t))
        ELSE IF Head(t) = "+" THEN NumeralValue(Tail(t))
        ELSE NumeralValue(t)

\* C5: time_to_seconds returns m*60+s for exactly two integer components,
\* h*3600+m*60+s for exactly three, and None (without raising) for any other
\* component count or any component that is not an integer;
\* "1:30:00" gives 5400 and "02:05" gives 125.
C5_TimeToSeconds ==
    pc \in {"ts_ret", "rt_ret"} =>
        LET comps == Split(timestamp, ":")
            k     == CharCount(timestamp, ":") + 1
            ints  == \A i \in 1..Len(comps) : IsInteger(comps[i])
            v(i)  == IntegerValue(comps[i])
        IN  /\ Len(comps) = k
            /\ (k = 2 /\ ints) => seconds = Some(v(1) * 60 + v(2))
            /\ (k = 3 /\ ints) =>
                   seconds = Some(v(1) * 3600 + v(2) * 60 + v(3))
            /\ (k \notin {2, 3} \/ ~ints) => seconds = None
            /\ timestamp = <<"1", ":", "3", "0", ":", "0", "0">> =>
                   seconds = Some(5400)
            /\ timestamp = <<"0", "2", ":", "0", "5">> => seconds = Some(125)

C5_Witness ==
    /\ pc = "ts_ret"
    /\ timestamp = <<"1", ":", "3", "0", ":", "0", "0">>
    /\ seconds = Some(5400)

\* C6 as stated: the result is a fixed-width MM:SS text whose minutes field
\* is the minutes modulo 60 (hours dropped), so 3725 s gives "02:05".
C6_MinutesModulo60 ==
    pc \in {"fmt_ret", "rt_ret"} =>
        LET secs == ticks \div Scale
        IN  /\ Len(stamp) = 5
            /\ stamp[3] = ":"
            /\ IsNumeral(SubSeq(stamp, 1, 2))
            /\ IsNumeral(SubSeq(stamp, 4, 5))
            /\ NumeralValue(SubSeq(stamp, 1, 2)) = (secs \div 60) % 60
            /\ NumeralValue(SubSeq(stamp, 4, 5)) = secs % 60
            /\ ticks = 3725 * Scale => stamp = <<"0", "2", ":", "0", "5">>

\* C6 amended: the result is M:SS text with exactly one colon, a two-digit
\* seconds field equal to floor(seconds) mod 60, and a minutes field equal to
\* floor(seconds / 60) in full, zero-padded to two digits and wider from 100
\* minutes on; nothing is lost for whole seconds: 125 s gives "02:05" and
\* 3725 s gives "62:05".
C6_MinutesInFull ==
    pc \in {"fmt_ret", "rt_ret"} =>
        LET secs   == ticks \div Scale
            fields == Split(stamp, ":")
        IN  /\ CharCount(stamp, ":") = 1
            /\ Len(fields) = 2
            /\ IsNumeral(fields[1]) /\ IsNumeral(fields[2])
            /\ Len(fields[2]) = 2
            /\ Len(fields[1]) >= 2
            /\ Len(fields[1]) > 2 => fields[1][1] # "0"
            /\ NumeralValue(fields[1]) = secs \div 60
            /\ NumeralValue(fields[2]) = secs % 60
            /\ ticks = 125 * Scale => stamp = <<"0", "2", ":", "0", "5">>
            /\ ticks = 3725 * Scale => stamp = <<"6", "2", ":", "0", "5">>

C6_Witness ==
    /\ pc = "fmt_ret"
    /\ ticks = 3725 * Scale
    /\ stamp = <<"6", "2", ":", "0", "5">>

\* C7: for every zero-padded mm:ss with m < 60 and s < 60,
\* time_to_seconds_to_timestamp(time_to_seconds("mm:ss")) is "mm:ss" again.
C7_RoundTrip ==
    (pc = "rt_ret" /\ timestamp \in PaddedStamps) => stamp = timestamp

C7_Witness ==
    /\ pc = "rt_ret"
    /\ timestamp = <<"0", "7", ":", "0", "9">>
    /\ seconds = Some(429)
    /\ stamp = timestamp

(***************************************************************************)
(* Properties of the main block (under SpecMain)                           *)
(***************************************************************************)
\* The text before the first separator of a line, and the text after it.
BeforeSep(line) ==
    LET k == CHOOSE i \in 1..Len(line) :
                 line[i] = "-" /\ \A j \in 1..(i - 1) : line[j] # "-"
    IN  SubSeq(line, 1, k - 1)

AfterSep(line) ==
    LET k == CHOOSE i \in 1..Len(line) :
                 line[i] = "-" /\ \A j \in 1..(i - 1) : line[j] # "-"
    IN  SubSeq(line, k + 1, Len(line))

RECURSIVE PairsOfLines(_)
PairsOfLines(ls) ==
    IF ls = <<>> THEN <<>>
    ELSE IF Contains(Head(ls), "-")
         THEN <<Pair(Strip(BeforeSep(Head(ls))), Strip(AfterSep(Head(ls))))>>
                  \o PairsOfLines(Tail(ls))
         ELSE PairsOfLines(Tail(ls))

\* C3: once read_timestamps has returned, its result holds, in file order,
\* exactly one pair (trimmed text before the separator, trimmed text after
\* it) for each line containing '-' and nothing for the other lines; no line
\* aborts the read or removes the pairs of other lines.
C3_OnePairPerSeparatorLine ==
    pc # "read" => timestamps = PairsOfLines(lines)

\* The validator rule in the words of section 4.3, over a whole sequence.
RECURSIVE Validated(_, _)
Validated(ps, d) ==
    IF ps = <<>> THEN <<>>
    ELSE LET start == Head(ps)[1]
             end   == Head(ps)[2]
             rest  == Validated(Tail(ps), d)
         IN  IF time_to_seconds(start) = None
                     \/ time_to_seconds(end) = None
             THEN rest
             ELSE IF time_to_seconds(start)[1] * Scale >= d THEN rest
             ELSE IF time_to_seconds(end)[1] * Scale > d
             THEN <<Pair(start, time_to_seconds_to_timestamp(d))>> \o rest
             ELSE <<Pair(start, end)>> \o rest

ExampleLines ==
    <<<<"0","0",":","5","0","-","0","1",":","5","0","\n">>,
      <<"0","2",":","0","0","-","0","2",":","1","0","\n">>>>

\* C4: the validator loop drops a pair with a failed conversion, else drops
\* one with start_seconds >= duration, else keeps one with end_seconds >
\* duration with its end replaced by to_timestamp(duration), else keeps the
\* pair unchanged; order is preserved and the output is never longer than
\* the input; duration 100 and (00:50,01:50),(02:00,02:10) give exactly
\* [(00:50,01:40)].  Stated of the loop's passes and of the list handed on
\* (nothing after the loop assigns adjusted_timestamps).
C4_ValidatorLoop ==
    (pc = "validate" \/ (pc = "loop" /\ idx = 0)) =>
        /\ adjusted_timestamps =
               Validated(SubSeq(timestamps, 1, pair_no), video_duration)
        /\ Len(adjusted_timestamps) <= pair_no
        /\ (lines = ExampleLines /\ video_duration = 100 * Scale
                /\ pair_no = 2) =>
               adjusted_timestamps =
                   <<Pair(<<"0","0",":","5","0">>, <<"0","1",":","4","0">>)>>

C4_Witness ==
    /\ pc = "loop" /\ idx = 0
    /\ lines = ExampleLines
    /\ video_duration = 100 * Scale
    /\ timestamps = <<Pair(<<"0","0",":","5","0">>, <<"0","1",":","5","0">>),
                      Pair(<<"0","2",":","0","0">>, <<"0","2",":","1","0">>)>>
    /\ adjusted_timestamps =
           <<Pair(<<"0","0",":","5","0">>, <<"0","1",":","4","0">>)>>

\* C10: every pair the validator loop hands to extract_and_resize_clips
\* converts again there (the re-check of line 58 never skips), and the range
\* requested at line 66 satisfies 0 <= start_sec < d and end_sec <= d; a
\* clamped pair is extracted up to floor(d) seconds, hours included.
C10_ExtractionRangeWithinVideo ==
    /\ skipped = {}
    /\ pc = "extract" =>
        /\ start_sec # None /\ end_sec # None
        /\ 0 <= start_sec[1]
        /\ start_sec[1] * Scale < video_duration
        /\ end_sec[1] * Scale <= video_duration
        /\ FileNo \in clamped => end_sec[1] = video_duration \div Scale

C10_Witness ==
    /\ pc = "extract"
    /\ FileNo \in clamped
    /\ video_duration = 3725 * Scale + 1
    /\ start_sec = Some(3598)
    /\ end_sec = Some(3725)

(***************************************************************************)
(* Properties of extract_and_resize_clips (under Spec)                     *)
(***************************************************************************)
\* C1: the temp file of a pair does not exist once that pair's iteration
\* has ended, unless the delete call itself raised.
C1_NoTempFileOutlivesIteration ==
    pc \in {"loop", "returned"} =>
        \A n \in 1..idx : n \in temp_exists => n \in delete_failed

\* C2: whatever fails while a clip is processed, the loop enters every pair
\* of the sequence in order (one per iteration), no exception leaves the
\* function, the function is never stuck short of its return, and it
\* returns only after the last pair.
C2_EveryPairVisited ==
    /\ pc # "aborted"
    /\ visited = [i \in 1..Len(visited) |-> i]
    /\ Len(visited) = IF pc \in {"loop", "returned"} THEN idx ELSE idx + 1
    /\ idx <= Len(clip_timestamps)
    /\ pc \in {"loop", "extract", "getsize", "verify_open", "verify_check",
               "verify_remove", "open", "check", "resize", "crop", "write",
               "finally", "finally_continue", "remove", "returned"}
    /\ pc = "returned" => Len(visited) = Len(clip_timestamps)

C2_Witness ==
    /\ pc = "returned"
    /\ Len(clip_timestamps) = 2
    /\ extracted[1] = "good"
    /\ clips[1] = "partial"
    /\ 1 \in delete_failed
    /\ visited = <<1, 2>>
    /\ clips[2] = "written"

\* C8: clip_n.mp4 is written only in the iteration of pair n and only after
\* that pair's temp file was found non-empty and of non-zero duration; a
\* zero-byte extraction result for pair n leaves clip_n.mp4 unwritten, and
\* the loop goes on to the pairs after it.
C8_ClipWrittenOnlyAfterChecks ==
    /\ \A n \in DOMAIN clips :
        /\ clips[n] # "absent" =>
               /\ n \in size_checked /\ n \in dur_checked
               /\ extracted[n] = "good"
               /\ n <= Len(visited)
        /\ extracted[n] = "empty" => clips[n] = "absent"
        /\ (extracted[n] = "empty" /\ pc = "returned") =>
               Len(visited) = Len(clip_timestamps)
    /\ pc = "write" =>
           /\ FileNo \in size_checked /\ FileNo \in dur_checked
           /\ clip # None /\ clip[1] = FileNo

C8_Witness ==
    /\ pc = "returned"
    /\ Len(clip_timestamps) = 2
    /\ extracted[1] = "empty"
    /\ clips[1] = "absent"
    /\ clips[2] = "written"

\* C9: every handle opened for a pair is closed whenever its temp file is
\* deleted and whenever the loop advances, and the finally block closes only
\* a handle of the current iteration.
C9_HandlesReleasedPerIteration ==
    /\ pc \in {"loop", "returned", "remove", "verify_remove"} =>
           open_handles = {}
    /\ (pc = "remove" /\ finally_target # None) => finally_target[1] = FileNo

=============================================================================
